---- MODULE Spec2Model ----
(***************************************************************************)
(* A model of the State example (Context, State, ConcreteStateA,           *)
(* ConcreteStateB) and of the Proxy example (RealSubject, Proxy).          *)
(*                                                                         *)
(* The programs are single threaded.  A call is modelled statement by      *)
(* statement with an explicit call stack, because several properties speak *)
(* of the states inside a running handler (between the trace line of       *)
(* transitionTo and its assignment, between the assignment and             *)
(* setContext, after a re-entrant transitionTo has returned).              *)
(*                                                                         *)
(* The client is any program that uses the public operations: it creates   *)
(* State instances, constructs Contexts, and calls transitionTo, request1  *)
(* and request2.  The client can only pass State instances it created      *)
(* itself: Context.state is private and the instances created inside the   *)
(* handlers are never handed out.                                          *)
(***************************************************************************)
EXTENDS Naturals, Sequences, FiniteSets

VARIABLES
    state,       \* Context.state of every Context: an instance id, NULL while unset
    built,       \* the Contexts whose constructor has returned
    objs,        \* the State instances ever created: their class and context field
    clientObjs,  \* the instances created by the client (the ones it can pass)
    stack,       \* the call stack, top frame last
    log,         \* the lines written to the console
    script,      \* history: the client's operations so far
    hist         \* history: assignments of Context.state and dispatches, in order;
                 \* backref is the instance's context field at that moment

vars == <<state, built, objs, clientObjs, stack, log, script, hist>>

(* The bound of the model: the number of operations the client performs. *)
MaxOps == 5

NULL == 0
Contexts == 1..MaxOps
ClassA == "ConcreteStateA"
ClassB == "ConcreteStateB"
Classes == {ClassA, ClassB}

Frame(fn, pc, this, arg) == [fn |-> fn, pc |-> pc, this |-> this, arg |-> arg]
Top == stack[Len(stack)]
Pop == SubSeq(stack, 1, Len(stack) - 1)
SetTopPc(pc) == [stack EXCEPT ![Len(stack)].pc = pc]
Idle == stack = <<>>
Caller == IF Len(stack) >= 2 THEN stack[Len(stack) - 1].fn ELSE "client"

(* The client's operations so far that are calls (not `new ConcreteStateX()`).
   A `new ConcreteStateX()` has no effect but the new instance, so the client's
   instances are all created before its first call. *)
Calls == {i \in 1..Len(script) : script[i].op # "new"}
Started == {script[i].ctx : i \in {j \in 1..Len(script) : script[j].op = "Context"}}

(***************************************************************************)
(* The statements of the four handlers.                                    *)
(***************************************************************************)
LogStmt(line) == [k |-> "log", v |-> line]
TransitionStmt(cls) == [k |-> "transitionTo", v |-> cls]

ConcreteStateA_handle1 ==
    << LogStmt("ConcreteStateA handles request1."),
       LogStmt("ConcreteStateA wants to change the state of the context."),
       TransitionStmt(ClassB) >>

(* Mutation of ConcreteStateA_handle2: the handler changes the state too. *)
ConcreteStateA_handle2_Transitions ==
    << LogStmt("ConcreteStateA handles request2."),
       LogStmt("ConcreteStateA wants to change the state of the context."),
       TransitionStmt(ClassB) >>

ConcreteStateA_handle2 ==
    << LogStmt("ConcreteStateA handles request2.") >>

ConcreteStateB_handle1 ==
    << LogStmt("ConcreteStateB handles request1.") >>

(* Mutation of ConcreteStateB_handle2: the announcement follows the
   transition. *)
ConcreteStateB_handle2_TransitionFirst ==
    << LogStmt("ConcreteStateB handles request2."),
       TransitionStmt(ClassA),
       LogStmt("ConcreteStateB wants to change the state of the context.") >>

(* Mutation of ConcreteStateB_handle2: the handler only logs. *)
ConcreteStateB_handle2_LogOnly ==
    << LogStmt("ConcreteStateB handles request2.") >>

ConcreteStateB_handle2 ==
    << LogStmt("ConcreteStateB handles request2."),
       LogStmt("ConcreteStateB wants to change the state of the context."),
       TransitionStmt(ClassA) >>

(* Mutation of Body: after its transition, handle1 of ConcreteStateA goes on
   with handle1 of the state it installed. *)
Body_Fallthrough(cls, fn) ==
    IF cls = ClassA
    THEN (IF fn = "handle1" THEN ConcreteStateA_handle1 \o ConcreteStateB_handle1
                            ELSE ConcreteStateA_handle2)
    ELSE (IF fn = "handle1" THEN ConcreteStateB_handle1 ELSE ConcreteStateB_handle2)

(* Dynamic dispatch of handle1 / handle2 on the class of the instance. *)
Body(cls, fn) ==
    IF cls = ClassA
    THEN (IF fn = "handle1" THEN ConcreteStateA_handle1 ELSE ConcreteStateA_handle2)
    ELSE (IF fn = "handle1" THEN ConcreteStateB_handle1 ELSE ConcreteStateB_handle2)

(* `Context: Transition to ${state.constructor.name}.` *)
TransitionLine(cls) == "Context: Transition to " \o cls \o "."

(* Mutation of SetContext: the back-reference is not stored. *)
SetContext_NotStored(o, s, c) == o

(* Mutation of SetContext: the back-reference is one field shared by all the
   instances (a static field). *)
SetContext_Static(o, s, c) == [i \in DOMAIN o |-> [o[i] EXCEPT !.context = c]]

(* State.setContext: this.context = context. *)
SetContext(o, s, c) == [o EXCEPT ![s].context = c]

(* this.state = state *)
AssignState(st, c, s) == [st EXCEPT ![c] = s]

(* Mutation of NewState: instances are pooled, one per variant. *)
NewState_Pooled(o, cls) ==
    IF \E i \in DOMAIN o : o[i].cls = cls
    THEN [heap |-> o, id |-> CHOOSE i \in DOMAIN o : o[i].cls = cls]
    ELSE [heap |-> Append(o, [cls |-> cls, context |-> NULL]), id |-> Len(o) + 1]

(* new ConcreteStateX(): a new instance, its context field not yet set. *)
NewState(o, cls) ==
    [heap |-> Append(o, [cls |-> cls, context |-> NULL]), id |-> Len(o) + 1]

(* An entry of the client's history; logAt is the length of the console log
   when the operation starts. *)
Op(op, c, s) == [op |-> op, ctx |-> c, obj |-> s, logAt |-> Len(log)]

(* Mutation of Delegate: the two requests delegate to each other's handler. *)
Delegate_Swapped(req) == IF req = "request1" THEN "handle2" ELSE "handle1"

(* The method a request delegates to. *)
Delegate(req) == IF req = "request1" THEN "handle1" ELSE "handle2"

Init ==
    /\ state = [c \in Contexts |-> NULL]
    /\ built = {}
    /\ objs = <<>>
    /\ clientObjs = {}
    /\ stack = <<>>
    /\ log = <<>>
    /\ script = <<>>
    /\ hist = <<>>

(***************************************************************************)
(* The client.                                                             *)
(***************************************************************************)
ClientNewState(cls) ==
    /\ Idle
    /\ Len(script) < MaxOps
    /\ Calls = {}
    /\ objs' = NewState(objs, cls).heap
    /\ clientObjs' = clientObjs \cup {NewState(objs, cls).id}
    /\ script' = Append(script, Op("new", NULL, NewState(objs, cls).id))
    /\ UNCHANGED <<state, built, stack, log, hist>>

ClientNewContext(c, s) ==
    /\ Idle
    /\ Len(script) < MaxOps
    /\ c = Cardinality(Started) + 1
    /\ s \in clientObjs
    /\ stack' = <<Frame("constructor", 1, c, s)>>
    /\ script' = Append(script, Op("Context", c, s))
    /\ UNCHANGED <<state, built, objs, clientObjs, log, hist>>

ClientTransitionTo(c, s) ==
    /\ Idle
    /\ Len(script) < MaxOps
    /\ c \in built
    /\ s \in clientObjs
    /\ stack' = <<Frame("transitionTo", 1, c, s)>>
    /\ script' = Append(script, Op("transitionTo", c, s))
    /\ UNCHANGED <<state, built, objs, clientObjs, log, hist>>

ClientRequest(c, req) ==
    /\ Idle
    /\ Len(script) < MaxOps
    /\ c \in built
    /\ stack' = <<Frame(req, 1, c, NULL)>>
    /\ script' = Append(script, Op(req, c, NULL))
    /\ UNCHANGED <<state, built, objs, clientObjs, log, hist>>

(***************************************************************************)
(* Context.                                                                *)
(***************************************************************************)
(* Mutation of ConstructorCall: the constructor returns without installing
   the state it was given. *)
ConstructorCall_NoTransition ==
    /\ ~Idle /\ Top.fn = "constructor" /\ Top.pc = 1
    /\ stack' = SetTopPc(2)
    /\ UNCHANGED <<state, built, objs, clientObjs, log, script, hist>>

(* constructor: this.transitionTo(state) *)
ConstructorCall ==
    /\ ~Idle /\ Top.fn = "constructor" /\ Top.pc = 1
    /\ stack' = Append(SetTopPc(2), Frame("transitionTo", 1, Top.this, Top.arg))
    /\ UNCHANGED <<state, built, objs, clientObjs, log, script, hist>>

ConstructorReturn ==
    /\ ~Idle /\ Top.fn = "constructor" /\ Top.pc = 2
    /\ built' = built \cup {Top.this}
    /\ stack' = Pop
    /\ UNCHANGED <<state, objs, clientObjs, log, script, hist>>

(* transitionTo, first statement: the trace line *)
TransitionLog ==
    /\ ~Idle /\ Top.fn = "transitionTo" /\ Top.pc = 1
    /\ log' = Append(log, TransitionLine(objs[Top.arg].cls))
    /\ stack' = SetTopPc(2)
    /\ UNCHANGED <<state, built, objs, clientObjs, script, hist>>

(* transitionTo, second statement: this.state = state *)
TransitionAssign ==
    /\ ~Idle /\ Top.fn = "transitionTo" /\ Top.pc = 2
    /\ state' = AssignState(state, Top.this, Top.arg)
    /\ hist' = Append(hist, [ev |-> "install", ctx |-> Top.this, obj |-> Top.arg,
                             by |-> Caller, call |-> Len(script),
                             backref |-> objs[Top.arg].context])
    /\ stack' = SetTopPc(3)
    /\ UNCHANGED <<built, objs, clientObjs, log, script>>

(* transitionTo, third statement: this.state.setContext(this); then return *)
TransitionSetContext ==
    /\ ~Idle /\ Top.fn = "transitionTo" /\ Top.pc = 3
    /\ objs' = SetContext(objs, state[Top.this], Top.this)
    /\ stack' = Pop
    /\ UNCHANGED <<state, built, clientObjs, log, script, hist>>

(* request1 / request2: this.state.handleN().  Calling a method of an unset
   state throws a TypeError, which nothing catches. *)
RequestDispatch ==
    /\ ~Idle /\ Top.fn \in {"request1", "request2"} /\ Top.pc = 1
    /\ IF state[Top.this] = NULL
       THEN /\ stack' = <<Frame("TypeError", 1, Top.this, NULL)>>
            /\ hist' = hist
       ELSE /\ stack' = Append(SetTopPc(2),
                               Frame(Delegate(Top.fn), 1, state[Top.this], NULL))
            /\ hist' = Append(hist, [ev |-> "dispatch", ctx |-> Top.this,
                                     obj |-> state[Top.this], by |-> Top.fn,
                                     call |-> Len(script),
                                     backref |-> objs[state[Top.this]].context])
    /\ UNCHANGED <<state, built, objs, clientObjs, log, script>>

RequestReturn ==
    /\ ~Idle /\ Top.fn \in {"request1", "request2"} /\ Top.pc = 2
    /\ stack' = Pop
    /\ UNCHANGED <<state, built, objs, clientObjs, log, script, hist>>

(***************************************************************************)
(* The handlers of the concrete states.                                    *)
(***************************************************************************)
InHandler == ~Idle /\ Top.fn \in {"handle1", "handle2"}
TopBody == Body(objs[Top.this].cls, Top.fn)

(* console.log(...) *)
HandleLog ==
    /\ InHandler /\ Top.pc <= Len(TopBody) /\ TopBody[Top.pc].k = "log"
    /\ log' = Append(log, TopBody[Top.pc].v)
    /\ stack' = SetTopPc(Top.pc + 1)
    /\ UNCHANGED <<state, built, objs, clientObjs, script, hist>>

(* this.context.transitionTo(new ConcreteStateX()); reading transitionTo of
   an unset context throws a TypeError before the instance is created *)
HandleTransition ==
    /\ InHandler /\ Top.pc <= Len(TopBody) /\ TopBody[Top.pc].k = "transitionTo"
    /\ IF objs[Top.this].context = NULL
       THEN /\ stack' = <<Frame("TypeError", 1, Top.this, NULL)>>
            /\ objs' = objs
       ELSE /\ objs' = NewState(objs, TopBody[Top.pc].v).heap
            /\ stack' = Append(SetTopPc(Top.pc + 1),
                               Frame("transitionTo", 1, objs[Top.this].context,
                                     NewState(objs, TopBody[Top.pc].v).id))
    /\ UNCHANGED <<state, built, clientObjs, log, script, hist>>

HandleReturn ==
    /\ InHandler /\ Top.pc > Len(TopBody)
    /\ stack' = Pop
    /\ UNCHANGED <<state, built, objs, clientObjs, log, script, hist>>

Next ==
    \/ \E cls \in Classes : ClientNewState(cls)
    \/ \E c \in Contexts, s \in 1..Len(objs) : ClientNewContext(c, s)
    \/ \E c \in Contexts, s \in 1..Len(objs) : ClientTransitionTo(c, s)
    \/ \E c \in Contexts, req \in {"request1", "request2"} : ClientRequest(c, req)
    \/ ConstructorCall
    \/ ConstructorReturn
    \/ TransitionLog
    \/ TransitionAssign
    \/ TransitionSetContext
    \/ RequestDispatch
    \/ RequestReturn
    \/ HandleLog
    \/ HandleTransition
    \/ HandleReturn

Spec == Init /\ [][Next]_vars

(* The statements of a call that is running.  The program is single threaded
   and synchronous: once the client has made a call, the call's statements
   run one after the other without waiting for anything. *)
Step ==
    \/ ConstructorCall
    \/ ConstructorReturn
    \/ TransitionLog
    \/ TransitionAssign
    \/ TransitionSetContext
    \/ RequestDispatch
    \/ RequestReturn
    \/ HandleLog
    \/ HandleTransition
    \/ HandleReturn

FairSpec == Spec /\ WF_vars(Step)

(***************************************************************************)
(* The Proxy example: a client that calls request() on the RealSubject and *)
(* on a Proxy that holds it.  The stack, the console log and the client's  *)
(* history are the variables it uses.                                      *)
(***************************************************************************)
RealSubjectLine == "RealSubject: Handling request."
CheckAccessLine == "Proxy: Checking access prior to firing a real request."
LogAccessLine == "Proxy: Logging the time of request."

(* The value checkAccess returns. *)
CheckAccessResult == TRUE

(* Mutation of ProxyAfterCheck: the access is logged before the request is
   forwarded. *)
ProxyAfterCheck_LogFirst(granted) ==
    IF granted THEN <<"logAccess", "RealSubject.request">> ELSE <<>>

(* What Proxy.request calls once checkAccess has returned `granted`. *)
ProxyAfterCheck(granted) ==
    IF granted THEN <<"RealSubject.request", "logAccess">> ELSE <<>>

(* clientCode(subject): subject.request() *)
ClientSubjectRequest(subject) ==
    /\ Idle
    /\ Len(script) < MaxOps
    /\ stack' = <<Frame(subject, 0, NULL, FALSE)>>
    /\ script' = Append(script, Op(subject, NULL, NULL))
    /\ UNCHANGED <<state, built, objs, clientObjs, log, hist>>

(* RealSubject.request *)
RealSubjectRequest ==
    /\ ~Idle /\ Top.fn = "RealSubject.request"
    /\ log' = Append(log, RealSubjectLine)
    /\ stack' = Pop
    /\ UNCHANGED <<state, built, objs, clientObjs, script, hist>>

(* Proxy.request: if (this.checkAccess()) *)
ProxyCallCheckAccess ==
    /\ ~Idle /\ Top.fn = "Proxy.request" /\ Top.pc = 0
    /\ stack' = Append(stack, Frame("checkAccess", 1, NULL, FALSE))
    /\ UNCHANGED <<state, built, objs, clientObjs, log, script, hist>>

CheckAccessLog ==
    /\ ~Idle /\ Top.fn = "checkAccess" /\ Top.pc = 1
    /\ log' = Append(log, CheckAccessLine)
    /\ stack' = SetTopPc(2)
    /\ UNCHANGED <<state, built, objs, clientObjs, script, hist>>

(* return true: the caller continues with the value *)
CheckAccessReturn ==
    /\ ~Idle /\ Top.fn = "checkAccess" /\ Top.pc = 2
    /\ stack' = [Pop EXCEPT ![Len(stack) - 1].pc = 1,
                            ![Len(stack) - 1].arg = CheckAccessResult]
    /\ UNCHANGED <<state, built, objs, clientObjs, log, script, hist>>

(* the body of the if: this.realSubject.request(); this.logAccess(); *)
ProxyCallNext ==
    /\ ~Idle /\ Top.fn = "Proxy.request" /\ Top.pc >= 1
    /\ Top.pc <= Len(ProxyAfterCheck(Top.arg))
    /\ stack' = Append(SetTopPc(Top.pc + 1),
                       Frame(ProxyAfterCheck(Top.arg)[Top.pc], 1, NULL, FALSE))
    /\ UNCHANGED <<state, built, objs, clientObjs, log, script, hist>>

ProxyReturn ==
    /\ ~Idle /\ Top.fn = "Proxy.request" /\ Top.pc >= 1
    /\ Top.pc > Len(ProxyAfterCheck(Top.arg))
    /\ stack' = Pop
    /\ UNCHANGED <<state, built, objs, clientObjs, log, script, hist>>

LogAccess ==
    /\ ~Idle /\ Top.fn = "logAccess"
    /\ log' = Append(log, LogAccessLine)
    /\ stack' = Pop
    /\ UNCHANGED <<state, built, objs, clientObjs, script, hist>>

NextProxy ==
    \/ \E subject \in {"RealSubject.request", "Proxy.request"} :
          ClientSubjectRequest(subject)
    \/ RealSubjectRequest
    \/ ProxyCallCheckAccess
    \/ CheckAccessLog
    \/ CheckAccessReturn
    \/ ProxyCallNext
    \/ ProxyReturn
    \/ LogAccess

SpecProxy == Init /\ [][NextProxy]_vars


(***************************************************************************)
(* Views of the two histories.                                             *)
(***************************************************************************)
HistIdx == 1..Len(hist)
IsInstall(i) == hist[i].ev = "install"
IsDispatch(i) == hist[i].ev = "dispatch"
InstallSeq == SelectSeq(hist, LAMBDA e : e.ev = "install")
TransitionLines == {TransitionLine(ClassA), TransitionLine(ClassB)}
TransitionLineSeq == SelectSeq(log, LAMBDA l : l \in TransitionLines)
InTransitionTo(pc) == ~Idle /\ Top.fn = "transitionTo" /\ Top.pc = pc
OnStack(fn) == \E i \in 1..Len(stack) : stack[i].fn = fn

(* C5: once the constructor of a Context has returned, its state field is
   set in every reachable state, the states inside a handler that is calling
   transitionTo included; no request is dispatched on an unset state, so no
   call ends in a TypeError. *)
C5_StateAlwaysSet ==
    /\ \A c \in built : state[c] # NULL /\ state[c] \in 1..Len(objs)
    /\ ~OnStack("TypeError")
    /\ \A i \in 1..Len(stack) :
          stack[i].fn \in {"request1", "request2"} => state[stack[i].this] # NULL

(* A handler of a built Context is inside its re-entrant transitionTo, the
   trace line written and the state field not yet reassigned. *)
C5_Witness ==
    /\ Len(stack) = 3 /\ InTransitionTo(2)
    /\ stack[1].fn = "request1" /\ stack[1].this \in built

(* The trace line of transitionTo comes first, once per call, and names the
   variant of the instance; the assignment follows it. *)
C7_LineThenAssign ==
    /\ Len(TransitionLineSeq)
         = Len(InstallSeq) + (IF InTransitionTo(2) THEN 1 ELSE 0)
    /\ \A k \in 1..Len(InstallSeq) :
          TransitionLineSeq[k] = TransitionLine(objs[InstallSeq[k].obj].cls)
    /\ InTransitionTo(2) =>
          log[Len(log)] = TransitionLine(objs[Top.arg].cls)
    /\ InTransitionTo(3) => state[Top.this] = Top.arg

(* What holds when transitionTo, and when the constructor, returns. *)
C7_Returns ==
    /\ (InTransitionTo(3) /\ stack' = Pop) =>
          /\ state'[Top.this] = Top.arg
          /\ objs'[Top.arg].context = Top.this
    /\ (~Idle /\ Top.fn = "constructor" /\ Top.pc = 2 /\ stack' = Pop) =>
          /\ state'[Top.this] = Top.arg
          /\ objs'[Top.arg].context = Top.this
          /\ \E i \in HistIdx : /\ IsInstall(i) /\ hist[i].by = "constructor"
                                /\ hist[i].ctx = Top.this /\ hist[i].obj = Top.arg

(* C7: transitionTo(s) on a Context c takes any instance of any variant;
   it writes exactly one transition line, naming the variant of s, before it
   reassigns the state field; and when it returns, c.state is s and the
   back-reference of s is c.  The constructor goes through transitionTo, so
   a Context whose constructor returns satisfies the same. *)
C7_TransitionTo == [](C7_LineThenAssign) /\ [][C7_Returns]_vars

(* The client's transitionTo has returned after replacing an instance of one
   variant, still held by another Context, by an instance of the other. *)
C7_Witness ==
    /\ Idle /\ Len(script) >= 1 /\ script[Len(script)].op = "transitionTo"
    /\ LET c == script[Len(script)].ctx
           s == script[Len(script)].obj
       IN /\ state[c] = s /\ objs[s].context = c
          /\ \E i \in HistIdx : /\ IsInstall(i) /\ hist[i].ctx = c
                                /\ objs[hist[i].obj].cls # objs[s].cls
          /\ \E d \in built \ {c} : state[d] = s


(***************************************************************************)
(* Back-references and the life of an instance.                            *)
(***************************************************************************)
Objs == 1..Len(objs)
InstallsOf(c, s) == {i \in HistIdx : IsInstall(i) /\ hist[i].ctx = c /\ hist[i].obj = s}
InstallsOn(c) == {i \in HistIdx : IsInstall(i) /\ hist[i].ctx = c}
InstallsOfObj(s) == {i \in HistIdx : IsInstall(i) /\ hist[i].obj = s}
Last(S) == CHOOSE i \in S : \A j \in S : j <= i
ByHandler(i) == IsInstall(i) /\ hist[i].by \in {"handle1", "handle2"}
(* The instance an assignment of Context.state replaces (NULL: none). *)
Replaced(i) ==
    LET before == {j \in InstallsOn(hist[i].ctx) : j < i}
    IN IF before = {} THEN NULL ELSE hist[Last(before)].obj

(* C6, as claimed: for every State instance s whose context field is set to
   c, the state field of c is s. *)
C6_Original ==
    \A s \in Objs : objs[s].context # NULL => state[objs[s].context] = s

(* C6, amended: the back-reference of s, once set, is the Context that most
   recently completed installing s; s has been the state of that Context, and
   is its state still unless that Context has been transitioned since.  The
   back-reference of a replaced instance is never cleared. *)
C6_BackReference ==
    /\ \A s \in Objs :
          LET c == objs[s].context
          IN c # NULL =>
               /\ InstallsOf(c, s) # {}
               /\ state[c] # s => Last(InstallsOn(c)) > Last(InstallsOf(c, s))
               /\ \/ hist[Last(InstallsOfObj(s))].ctx = c
                  \/ InTransitionTo(3) /\ Top.arg = s
    /\ \A c \in Contexts :
          IF InstallsOn(c) = {} THEN state[c] = NULL
          ELSE state[c] = hist[Last(InstallsOn(c))].obj

(* The handler of a replaced instance is still running after its
   transitionTo has returned: the instance still points at the Context, which
   holds the new instance. *)
C6_Witness ==
    /\ Len(stack) = 2 /\ InHandler /\ Top.pc > Len(TopBody)
    /\ objs[Top.this].context = stack[1].this
    /\ state[stack[1].this] # Top.this
    /\ objs[state[stack[1].this]].context = stack[1].this

(* C9, as claimed: a handler's transition installs an instance that no
   Context held before, and the instance it replaces is never dispatched to
   again by any later request. *)
C9_Original ==
    /\ \A i \in HistIdx : ByHandler(i) =>
          /\ hist[i].obj \notin clientObjs
          /\ \A j \in 1..(i - 1) : hist[j].obj # hist[i].obj
    /\ \A i \in HistIdx : ByHandler(i) =>
          \A j \in HistIdx : (j > i /\ IsDispatch(j)) => hist[j].obj # Replaced(i)

(* C9, amended: a handler's transition installs an instance created for it,
   which no Context held before; afterwards the Context holds the new
   instance; the replaced instance is not dispatched to again by that Context
   unless it is installed in it again, which only the client can do and only
   with an instance the client created; a replaced instance that a handler
   created is never dispatched to again. *)
C9_FreshAndDiscarded ==
    /\ \A i \in HistIdx : ByHandler(i) =>
          /\ hist[i].obj \notin clientObjs
          /\ hist[i].backref = NULL
          /\ \A j \in 1..(i - 1) : hist[j].obj # hist[i].obj
    /\ \A c \in Contexts :
          InstallsOn(c) # {} => state[c] = hist[Last(InstallsOn(c))].obj
    /\ \A i \in HistIdx : ByHandler(i) =>
          \A j \in HistIdx : (j > i /\ IsDispatch(j) /\ hist[j].obj = Replaced(i)) =>
             /\ Replaced(i) \in clientObjs
             /\ \/ hist[j].ctx # hist[i].ctx
                \/ \E k \in InstallsOf(hist[i].ctx, Replaced(i)) :
                      i < k /\ k < j /\ ~ByHandler(k)

(* A handler has replaced an instance that a handler created, and a later
   request has been dispatched. *)
C9_Witness ==
    \E i \in HistIdx :
       /\ ByHandler(i) /\ Replaced(i) # NULL /\ Replaced(i) \notin clientObjs
       /\ \E j \in HistIdx : j > i /\ IsDispatch(j) /\ hist[j].ctx = hist[i].ctx


(***************************************************************************)
(* The calls of the client, one by one.                                    *)
(***************************************************************************)
ScriptIdx == 1..Len(script)
IsRequest(k) == script[k].op \in {"request1", "request2"}
Completed(k) == k < Len(script) \/ Idle
(* The console lines written during the client's k-th operation. *)
Segment(k) ==
    SubSeq(log, script[k].logAt + 1,
           IF k < Len(script) THEN script[k + 1].logAt ELSE Len(log))
DispatchesIn(k) == {i \in HistIdx : IsDispatch(i) /\ hist[i].call = k}
InstallsIn(k) == {i \in HistIdx : IsInstall(i) /\ hist[i].call = k}
ClsOf(i) == objs[hist[i].obj].cls
(* The variant that handles the k-th operation, a request. *)
HandlerCls(k) == ClsOf(CHOOSE i \in DispatchesIn(k) : TRUE)

(* The state machine as the properties state it. *)
Other(cls) == IF cls = ClassA THEN ClassB ELSE ClassA
Trigger(cls, req) ==
    \/ cls = ClassA /\ req = "request1"
    \/ cls = ClassB /\ req = "request2"
Delta(cls, req) == IF Trigger(cls, req) THEN Other(cls) ELSE cls
RECURSIVE Run(_, _)
Run(cls, reqs) ==
    IF reqs = <<>> THEN cls ELSE Run(Delta(cls, Head(reqs)), Tail(reqs))

HandlesLine(cls, req) == cls \o " handles " \o req \o "."
WantsLine(cls) == cls \o " wants to change the state of the context."

(* The Context c was constructed with an instance of ConcreteStateA, and the
   client has used c through request1 and request2 only. *)
ConstructedWithA(c) ==
    /\ \E k \in ScriptIdx :
          /\ script[k].op = "Context" /\ script[k].ctx = c
          /\ objs[script[k].obj].cls = ClassA
    /\ \A j \in ScriptIdx : ~(script[j].op = "transitionTo" /\ script[j].ctx = c)
(* The instance c was constructed with is passed to no other Context. *)
OwnInstance(c) ==
    \A k \in ScriptIdx : (script[k].op = "Context" /\ script[k].ctx = c) =>
       \A j \in ScriptIdx \ {k} :
          script[j].op \in {"Context", "transitionTo"} => script[j].obj # script[k].obj
RequestsOn(c) ==
    LET on == SelectSeq(script, LAMBDA e : e.op \in {"request1", "request2"} /\ e.ctx = c)
    IN [n \in 1..Len(on) |-> on[n].op]
InstallSeqOn(c) == SelectSeq(hist, LAMBDA e : e.ev = "install" /\ e.ctx = c)

(* The state of c changes only on the matching trigger call (request1 in A,
   to B; request2 in B, to A): the instances installed are A, B, A, B, ...;
   each one after the first is installed by the handler of the variant it
   replaces, during that variant's trigger request on c; and when no call is
   running the active variant is the one the two-state machine reaches from A
   by the requests made on c.  As each variant has a trigger, neither is
   terminal. *)
Alternates(c) ==
    /\ \A n \in 1..Len(InstallSeqOn(c)) :
          objs[InstallSeqOn(c)[n].obj].cls = (IF n % 2 = 1 THEN ClassA ELSE ClassB)
    /\ \A i \in InstallsOn(c) : Replaced(i) # NULL =>
          /\ ByHandler(i)
          /\ IsRequest(hist[i].call) /\ script[hist[i].call].ctx = c
          /\ Trigger(objs[Replaced(i)].cls, script[hist[i].call].op)
          /\ ClsOf(i) = Other(objs[Replaced(i)].cls)
    /\ (Idle /\ c \in built) =>
          objs[state[c]].cls = Run(ClassA, RequestsOn(c))

(* C1, as claimed: for every sequence of request1 and request2 calls on a
   Context constructed with ConcreteStateA, the active variant changes only on
   the matching trigger call and alternates A, B, A, B, ... *)
C1_Original ==
    \A c \in Contexts : ConstructedWithA(c) => Alternates(c)

(* C1, amended: the same, for a Context constructed with an instance of
   ConcreteStateA that is passed to no other Context. *)
C1_Alternates ==
    \A c \in Contexts : (ConstructedWithA(c) /\ OwnInstance(c)) => Alternates(c)

(* A Context constructed with A has gone A, B, A and has also handled a
   request that is no trigger. *)
C1_Witness ==
    \E c \in built :
       /\ Idle /\ ConstructedWithA(c) /\ OwnInstance(c)
       /\ Len(InstallSeqOn(c)) >= 3
       /\ \E k \in ScriptIdx :
             IsRequest(k) /\ script[k].ctx = c /\ ~Trigger(HandlerCls(k), script[k].op)

(* C2: request2 handled by a ConcreteStateA and request1 handled by a
   ConcreteStateB do not call transitionTo: no state field is assigned during
   the call, only the handler's own line is written, and the Context holds
   the same instance (so the same variant) during and after the call,
   however often the call is repeated. *)
C2_NonTriggerKeepsState ==
    \A i \in HistIdx :
       (IsDispatch(i) /\ ~Trigger(ClsOf(i), hist[i].by)) =>
          /\ InstallsIn(hist[i].call) = {}
          /\ hist[i].call = Len(script) =>
                /\ state[hist[i].ctx] = hist[i].obj
                /\ ~OnStack("transitionTo")
                /\ hist[Len(hist)] = hist[i]
          /\ Completed(hist[i].call) =>
                Segment(hist[i].call) = <<HandlesLine(ClsOf(i), hist[i].by)>>

(* The non-triggering request has been made three times in a row on a
   Context in A, and has returned. *)
C2_Witness ==
    /\ Idle /\ Len(script) >= 3
    /\ \A k \in (Len(script) - 2)..Len(script) :
          /\ script[k].op = "request2" /\ script[k].ctx = script[Len(script)].ctx
          /\ HandlerCls(k) = ClassA

(* C3: the reference scenario, new Context(new ConcreteStateA()), request1(),
   request2(), writes exactly the seven documented lines, in order. *)
ReferenceScript ==
    << <<"new", NULL, 1>>, <<"Context", 1, 1>>,
       <<"request1", 1, NULL>>, <<"request2", 1, NULL>> >>
ReferenceOutput ==
    << "Context: Transition to ConcreteStateA.",
       "ConcreteStateA handles request1.",
       "ConcreteStateA wants to change the state of the context.",
       "Context: Transition to ConcreteStateB.",
       "ConcreteStateB handles request2.",
       "ConcreteStateB wants to change the state of the context.",
       "Context: Transition to ConcreteStateA." >>
RunsReference ==
    /\ Len(script) <= Len(ReferenceScript)
    /\ \A k \in ScriptIdx :
          <<script[k].op, script[k].ctx, script[k].obj>> = ReferenceScript[k]
    /\ Len(objs) >= 1 => objs[1].cls = ClassA

C3_ReferenceTrace ==
    RunsReference =>
       /\ Len(log) <= Len(ReferenceOutput)
       /\ log = SubSeq(ReferenceOutput, 1, Len(log))
       /\ (Len(script) = Len(ReferenceScript) /\ Idle) => log = ReferenceOutput

C3_Witness ==
    RunsReference /\ Len(script) = Len(ReferenceScript) /\ Idle /\ Len(log) = 7


(* A request1 on c handled by a ConcreteStateA, followed at once by a
   request2 on c that has returned. *)
Pair(k, c) ==
    /\ k + 1 <= Len(script) /\ Completed(k + 1)
    /\ script[k].op = "request1" /\ script[k].ctx = c
    /\ script[k + 1].op = "request2" /\ script[k + 1].ctx = c
    /\ HandlerCls(k) = ClassA
(* The pair made exactly two transitions, both of c: to B, then to A, and c
   is in A when the pair returns. *)
RoundTrip(k, c) ==
    LET ins == InstallsIn(k) \cup InstallsIn(k + 1)
    IN /\ Cardinality(ins) = 2
       /\ \A i \in ins : hist[i].ctx = c
       /\ \A i \in InstallsIn(k) : ClsOf(i) = ClassB
       /\ \A i \in InstallsIn(k + 1) : ClsOf(i) = ClassA
       /\ Cardinality(InstallsIn(k)) = 1
       /\ k + 1 = Len(script) => objs[state[c]].cls = ClassA

(* C4, as claimed: whenever the active variant of a Context is A, request1
   followed by request2 takes it through B back to A, in exactly two
   transitions. *)
C4_Original ==
    \A c \in Contexts : \A k \in ScriptIdx : Pair(k, c) => RoundTrip(k, c)

(* C4, amended: the same, whenever the active variant is A and the
   back-reference of the active instance is this Context (which it is unless
   the client passed that same instance to another Context later). *)
C4_RoundTrip ==
    \A c \in Contexts : \A k \in ScriptIdx :
       (Pair(k, c) /\ \A i \in DispatchesIn(k) : hist[i].backref = c) =>
          RoundTrip(k, c)

(* The round trip has been made from an A that a handler installed. *)
C4_Witness ==
    \E c \in built : \E k \in ScriptIdx :
       /\ Pair(k, c) /\ k + 1 = Len(script)
       /\ \A i \in DispatchesIn(k) :
             hist[i].backref = c /\ hist[i].obj \notin clientObjs

(* What the history and the console show of each request. *)
C10_Calls ==
    /\ \A k \in ScriptIdx : IsRequest(k) =>
          /\ Cardinality(DispatchesIn(k)) <= 1
          /\ Completed(k) => Cardinality(DispatchesIn(k)) = 1
          /\ \A i \in DispatchesIn(k) :
                /\ hist[i].ctx = script[k].ctx /\ hist[i].by = script[k].op
                /\ hist[i].obj =
                      hist[Last({j \in InstallsOn(script[k].ctx) : hist[j].call < k})].obj
                /\ \A j \in InstallsIn(k) :
                      /\ j > i /\ ByHandler(j) /\ hist[j].obj # hist[i].obj
                      /\ \A d \in HistIdx :
                            (IsDispatch(d) /\ hist[d].obj = hist[j].obj) => hist[d].call > k
                /\ Cardinality(InstallsIn(k)) <= 1
                /\ Completed(k) =>
                      /\ Cardinality(InstallsIn(k))
                            = (IF Trigger(ClsOf(i), script[k].op) THEN 1 ELSE 0)
                      /\ Segment(k) =
                            IF Trigger(ClsOf(i), script[k].op)
                            THEN << HandlesLine(ClsOf(i), script[k].op),
                                    WantsLine(ClsOf(i)),
                                    TransitionLine(Other(ClsOf(i))) >>
                            ELSE << HandlesLine(ClsOf(i), script[k].op) >>
    /\ Idle =>
          Len(TransitionLineSeq)
             = Cardinality({k \in ScriptIdx : script[k].op \in {"Context", "transitionTo"}})
               + Cardinality({k \in ScriptIdx :
                                IsRequest(k) /\ Trigger(HandlerCls(k), script[k].op)})
    /\ Len(stack) <= 3
    /\ ~OnStack("TypeError")

(* C10: each request is handled by exactly one instance, the one the Context
   held when the call was made; the call writes that variant's one `handles`
   line and, if it is the variant's trigger, the announcement and the one
   transition line as the last of the call; the instance it installs is
   created by the handler and handles no request in this call.  So the number
   of transition lines is the number of constructions and of the client's own
   transitionTo calls (1 for a single Context) plus the number of trigger
   requests.  No call nests deeper than request, handler, transitionTo, and
   every call returns. *)
C10_OneHandlerPerCall == [](C10_Calls) /\ (~Idle ~> Idle)

(* Two requests on one Context have returned: a trigger, and then a request
   handled by the instance the trigger installed. *)
C10_Witness ==
    /\ Idle
    /\ \E k \in ScriptIdx :
          /\ k + 1 <= Len(script) /\ IsRequest(k) /\ IsRequest(k + 1)
          /\ script[k].ctx = script[k + 1].ctx
          /\ Trigger(HandlerCls(k), script[k].op)
          /\ \E i \in InstallsIn(k), d \in DispatchesIn(k + 1) : hist[d].obj = hist[i].obj

(***************************************************************************)
(* The Proxy example.                                                      *)
(***************************************************************************)
(* The lines a returned call of request() has written: on the RealSubject its
   own line; on the Proxy the access check, then, if access was granted, the
   RealSubject's line and the access log. *)
LinesOf(subject) ==
    IF subject = "RealSubject.request" THEN <<RealSubjectLine>>
    ELSE IF CheckAccessResult THEN <<CheckAccessLine, RealSubjectLine, LogAccessLine>>
    ELSE <<CheckAccessLine>>

(* C8: Proxy.request checks access first, then forwards to the RealSubject,
   then logs the access; the RealSubject is not reached through the Proxy
   without the check having been made in the same call; the access log is
   written exactly when the request was forwarded, and neither happens when
   the check fails; a direct call of the RealSubject writes its own line
   only. *)
C8_ProxyOrder ==
    /\ \A k \in ScriptIdx : Completed(k) => Segment(k) = LinesOf(script[k].op)
    /\ (Len(stack) = 2 /\ Top.fn = "RealSubject.request") =>
          /\ stack[1].fn = "Proxy.request" /\ stack[1].arg = TRUE
          /\ Segment(Len(script)) = <<CheckAccessLine>>
    /\ (Len(stack) = 2 /\ Top.fn = "logAccess") =>
          /\ stack[1].fn = "Proxy.request" /\ stack[1].arg = TRUE
          /\ Segment(Len(script)) = <<CheckAccessLine, RealSubjectLine>>
    /\ (~Idle /\ stack[1].fn = "Proxy.request" /\ stack[1].pc >= 1
          /\ stack[1].arg = FALSE) =>
          Len(stack) = 1 /\ Segment(Len(script)) = <<CheckAccessLine>>

(* A call through the Proxy and a direct call have both returned. *)
C8_Witness ==
    /\ Idle
    /\ \E j, k \in ScriptIdx :
          /\ script[j].op = "Proxy.request" /\ Len(Segment(j)) = 3
          /\ script[k].op = "RealSubject.request" /\ Len(Segment(k)) = 1

====
